---- MODULE Spec2Model ----
(***************************************************************************)
(* Model of run_pipeline (app/services/summarize.py) and of                *)
(* Transcriber.transcribe / Transcriber.language_rules                     *)
(* (app/pipelines/summarizer.py).  One run of run_pipeline is a sequence   *)
(* of stage steps; pc is the position of the run in the function body.     *)
(* The collaborators whose code is not part of the sources (converter,     *)
(* enhancer, Summarizer, JSONLogger, the constructors) are modelled at     *)
(* their interface: every outcome the interface allows is a choice.        *)
(***************************************************************************)
EXTENDS Integers, Sequences, FiniteSets, TLC

VARIABLES
    pc,                 \* position of the run inside run_pipeline
    input_file,         \* [exists, suffix]: the input path and whether it exists
    denoise, aggressive_denoise, force_wav, language,   \* options
    log,                \* JSONLogger: the events appended so far
    persisted,          \* the event sequences written by JSONLogger.save()
    calls,              \* external operations invoked so far, in order
    audio_path,         \* the current audio artifact
    files,              \* files present under the transient directories
    created,            \* files this run created under them
    transcribed,        \* the path handed to transcriber.transcribe
    result_text,        \* result / detected_language of line 104
    detected_language,
    transcript,         \* output of language_rules
    chunks, clusters, cluster_summaries, final_summary,
    folder_idx,         \* index of the cleanup loop of line 144
    result,             \* what run_pipeline returned (or the exception raised)
    model_call,         \* Transcriber.transcribe: the options given to the model,
                        \* what the model did and what transcribe returned
    runs,               \* two interleaved runs: the position and locals of each
    disk                \* two interleaved runs: the transient files, by writer

vars == <<pc, input_file, denoise, aggressive_denoise, force_wav, language,
          log, persisted, calls, audio_path, files, created, transcribed,
          result_text, detected_language, transcript, chunks, clusters,
          cluster_summaries, final_summary, folder_idx, result, model_call,
          runs, disk>>

\* ---------------------------------------------------------------- bounds
MaxChunks == 8          \* largest chunk count chunk_text yields in the model
NumClusterIds == 2      \* cluster ids cluster_chunks may use: 0 .. NumClusterIds-1
AssignPeriod == 2       \* the assignments tried repeat with this period

\* ------------------------------------------------------------- constants
ClusterThreshold == 7

type_supported == {".mp4", ".mkv", ".mov", ".mp3", ".wav", ".m4a", ".flac", ".ogg"}
video_types == {".mp4", ".mkv", ".mov"}
audio_types == {".mp3", ".wav", ".m4a", ".flac", ".ogg"}

\* suffixes of the input paths the model tries (as written, before lower())
Suffixes == {".mp4", ".MKV", ".mov", ".mp3", ".wav", ".WAV", ".m4a", ".flac",
             ".ogg", ".txt", ".MP3x"}

\* str.lower() on the suffixes above
Lower_Identity(s) == s

Lower(s) ==
    CASE s = ".MKV"  -> ".mkv"
      [] s = ".WAV"  -> ".wav"
      [] s = ".MP3x" -> ".mp3x"
      [] OTHER       -> s

temp_folders == <<"data/audio/enhanced", "data/temp", "data/audio">>

\* ----------------------------------------------------------------- paths
NoPath == [dir |-> "", name |-> "None", ext |-> ""]
InputPath == [dir |-> "uploads", name |-> "talk", ext |-> input_file.suffix]
VideoAudioPath == [dir |-> "data/audio", name |-> "talk", ext |-> ".wav"]
StandardizedPath == [dir |-> "data/audio", name |-> "talk_standardized", ext |-> ".wav"]
EnhancedPath == [dir |-> "data/audio/enhanced", name |-> "talk_enhanced", ext |-> ".wav"]

\* folder.rglob("*"): the files under folder, at any depth
Under(folder, f) ==
    \/ f.dir = folder
    \/ folder = "data/audio" /\ f.dir = "data/audio/enhanced"

FilesUnder(folder) == {f \in files : Under(folder, f)}

\* ------------------------------------------------------------------- log
Ev(stage, severity) == [stage |-> stage, severity |-> severity]
Logged(stage, severity) == \E i \in 1..Len(log) : log[i] = Ev(stage, severity)
StageLogged(stage) == \E i \in 1..Len(log) : log[i].stage = stage
Invoked(op) == \E i \in 1..Len(calls) : calls[i] = op
Count(op) == Cardinality({i \in 1..Len(calls) : calls[i] = op})

\* --------------------------------------------------------------- results
NoResult == [pending |-> TRUE]
ErrorResult(msg) == [error |-> msg]
SuccessFields == {"summary", "transcript", "detected_language", "chunks", "cluster_summaries"}
SuccessResult ==
    [summary |-> final_summary, transcript |-> transcript,
     detected_language |-> detected_language, chunks |-> chunks,
     cluster_summaries |-> cluster_summaries]
Raised(exc) == [exception |-> exc]
NoCall == [options |-> {}, outcome |-> "not called", returned |-> "None"]

Init ==
    /\ pc = "start"
    /\ input_file \in [exists : BOOLEAN, suffix : Suffixes]
    /\ denoise \in BOOLEAN
    /\ aggressive_denoise \in BOOLEAN
    /\ force_wav \in BOOLEAN
    /\ language \in {"None", "", "id"}
    /\ log = <<>>
    /\ persisted = <<>>
    /\ calls = <<>>
    /\ audio_path = NoPath
    /\ files = {}
    /\ created = {}
    /\ transcribed = NoPath
    /\ result_text = "None"
    /\ detected_language = "None"
    /\ transcript = "None"
    /\ chunks = <<>>
    /\ clusters = <<>>
    /\ cluster_summaries = <<>>
    /\ final_summary = "None"
    /\ folder_idx = 1
    /\ result = NoResult
    /\ model_call = NoCall
    /\ runs = <<>>
    /\ disk = <<>>

\* the variables of the two interleaved runs, which one run alone leaves alone
Interleaved == <<runs, disk>>

Options == <<input_file, denoise, aggressive_denoise, force_wav, language>>
TextVars == <<result_text, detected_language, transcript, chunks, clusters,
              cluster_summaries, final_summary>>
FileVars == <<audio_path, files, created>>

\* lines 32-40: logger = JSONLogger(); audio_path = None; INITIALIZATION event
Begin ==
    /\ pc = "start"
    /\ log' = Append(log, Ev("INITIALIZATION", "INFO"))
    /\ pc' = "validate"
    /\ UNCHANGED <<Interleaved, model_call, Options, persisted, calls, FileVars, transcribed, TextVars,
                   folder_idx, result>>

\* lines 42-44 without the return of line 44
FileNotFound_FallsThrough ==
    /\ pc = "validate"
    /\ ~input_file.exists
    /\ log' = Append(log, Ev("FILE_VALIDATION", "ERROR"))
    /\ pc' = "normalize"
    /\ UNCHANGED <<Interleaved, model_call, Options, persisted, calls, FileVars, transcribed, TextVars,
                   folder_idx, result>>

\* lines 42-44
FileNotFound ==
    /\ pc = "validate"
    /\ ~input_file.exists
    /\ log' = Append(log, Ev("FILE_VALIDATION", "ERROR"))
    /\ result' = ErrorResult(<<"File not found: ", InputPath>>)
    /\ pc' = "done"
    /\ UNCHANGED <<Interleaved, model_call, Options, persisted, calls, FileVars, transcribed, TextVars,
                   folder_idx>>

\* line 46
input_type == Lower(input_file.suffix)

\* lines 46-49
UnsupportedType ==
    /\ pc = "validate"
    /\ input_file.exists
    /\ input_type \notin type_supported
    /\ log' = Append(log, Ev("FILE_VALIDATION", "ERROR"))
    /\ result' = ErrorResult(<<"Unsupported file type: ", input_type>>)
    /\ pc' = "done"
    /\ UNCHANGED <<Interleaved, model_call, Options, persisted, calls, FileVars, transcribed, TextVars,
                   folder_idx>>

\* lines 46-52 without the FILE_VALIDATION SUCCESS event of line 51
Validated_Unrecorded ==
    /\ pc = "validate"
    /\ input_file.exists
    /\ input_type \in type_supported
    /\ log' = Append(log, Ev("AUDIO_CONVERSION", "INFO"))
    /\ pc' = "normalize"
    /\ UNCHANGED <<Interleaved, model_call, Options, persisted, calls, FileVars,
                   transcribed, TextVars, folder_idx, result>>

\* lines 46-52
Validated ==
    /\ pc = "validate"
    /\ input_file.exists
    /\ input_type \in type_supported
    /\ log' = log \o <<Ev("FILE_VALIDATION", "SUCCESS"), Ev("AUDIO_CONVERSION", "INFO")>>
    /\ pc' = "normalize"
    /\ UNCHANGED <<Interleaved, model_call, Options, persisted, calls, FileVars, transcribed, TextVars,
                   folder_idx, result>>

\* lines 54-64 with a failed conversion handled like the audio case of line 74
ConvertVideo_Degrades ==
    /\ pc = "normalize"
    /\ input_type \in video_types
    /\ calls' = calls \o <<"mkdir", "convert_video_to_audio">>
    /\ \E ok \in BOOLEAN :
         IF ok
         THEN /\ audio_path' = VideoAudioPath
              /\ files' = files \cup {VideoAudioPath}
              /\ created' = created \cup {VideoAudioPath}
              /\ log' = log \o <<Ev("VIDEO_PROCESSING", "INFO"), Ev("VIDEO_PROCESSING", "SUCCESS")>>
         ELSE /\ audio_path' = InputPath
              /\ UNCHANGED <<files, created>>
              /\ log' = log \o <<Ev("VIDEO_PROCESSING", "INFO"), Ev("VIDEO_PROCESSING", "ERROR")>>
    /\ pc' = "enhance"
    /\ UNCHANGED <<Interleaved, model_call, Options, persisted, transcribed, TextVars, folder_idx, result>>

\* lines 54-64: a video input is always converted; a failed conversion is fatal
ConvertVideo ==
    /\ pc = "normalize"
    /\ input_type \in video_types
    /\ calls' = calls \o <<"mkdir", "convert_video_to_audio">>
    /\ \E ok \in BOOLEAN :
         IF ok
         THEN /\ audio_path' = VideoAudioPath
              /\ files' = files \cup {VideoAudioPath}
              /\ created' = created \cup {VideoAudioPath}
              /\ log' = log \o <<Ev("VIDEO_PROCESSING", "INFO"), Ev("VIDEO_PROCESSING", "SUCCESS")>>
              /\ pc' = "enhance"
              /\ UNCHANGED result
         ELSE /\ audio_path' = VideoAudioPath
              /\ UNCHANGED <<files, created>>
              /\ log' = log \o <<Ev("VIDEO_PROCESSING", "INFO"), Ev("VIDEO_PROCESSING", "ERROR")>>
              /\ result' = ErrorResult(<<"Video conversion failed">>)
              /\ pc' = "done"
    /\ UNCHANGED <<Interleaved, model_call, Options, persisted, transcribed, TextVars, folder_idx>>

\* line 68 without "or force_wav"
NeedsStandardization_IgnoresForce == input_type # ".wav"

\* line 68
NeedsStandardization == input_type # ".wav" \/ force_wav

\* line 75: the artifact used when convert_audio_format returns None
FallbackPath_Standardized == StandardizedPath

FallbackPath == InputPath

\* lines 66-77: an audio input that is not .wav (or force_wav) is standardized;
\* a failed standardization is a warning and the original file is used
ConvertAudio ==
    /\ pc = "normalize"
    /\ input_type \in audio_types
    /\ NeedsStandardization
    /\ calls' = calls \o <<"mkdir", "convert_audio_format">>
    /\ \E ok \in BOOLEAN :
         IF ok
         THEN /\ audio_path' = StandardizedPath
              /\ files' = files \cup {StandardizedPath}
              /\ created' = created \cup {StandardizedPath}
              /\ log' = log \o <<Ev("AUDIO_PROCESSING", "INFO"), Ev("AUDIO_PROCESSING", "SUCCESS")>>
         ELSE /\ audio_path' = FallbackPath
              /\ UNCHANGED <<files, created>>
              /\ log' = log \o <<Ev("AUDIO_PROCESSING", "INFO"), Ev("AUDIO_PROCESSING", "WARNING")>>
    /\ pc' = "enhance"
    /\ UNCHANGED <<Interleaved, model_call, Options, persisted, transcribed, TextVars, folder_idx, result>>

\* lines 66-67, 78-80 without the assignment of line 79
UseWavDirectly_NoAssign ==
    /\ pc = "normalize"
    /\ input_type \in audio_types
    /\ ~NeedsStandardization
    /\ log' = log \o <<Ev("AUDIO_PROCESSING", "INFO"), Ev("AUDIO_PROCESSING", "INFO")>>
    /\ pc' = "enhance"
    /\ UNCHANGED <<Interleaved, model_call, Options, persisted, calls, FileVars,
                   transcribed, TextVars, folder_idx, result>>

\* lines 66-67, 78-80: a .wav input without force_wav is used as it is
UseWavDirectly ==
    /\ pc = "normalize"
    /\ input_type \in audio_types
    /\ ~NeedsStandardization
    /\ audio_path' = InputPath
    /\ log' = log \o <<Ev("AUDIO_PROCESSING", "INFO"), Ev("AUDIO_PROCESSING", "INFO")>>
    /\ pc' = "enhance"
    /\ UNCHANGED <<Interleaved, model_call, Options, persisted, calls, files, created, transcribed, TextVars,
                   folder_idx, result>>

\* line 82 without "or aggressive_denoise"
EnhancementRequested_DenoiseOnly == denoise

\* line 82
EnhancementRequested == denoise \/ aggressive_denoise

\* lines 82-89: enhancement is best effort
Enhance ==
    /\ pc = "enhance"
    /\ EnhancementRequested
    /\ calls' = Append(calls, "enhance_audio")
    /\ \E ok \in BOOLEAN :
         IF ok
         THEN /\ audio_path' = EnhancedPath
              /\ files' = files \cup {EnhancedPath}
              /\ created' = created \cup {EnhancedPath}
              /\ log' = log \o <<Ev("AUDIO_ENHANCEMENT", "INFO"), Ev("AUDIO_ENHANCEMENT", "SUCCESS")>>
         ELSE /\ UNCHANGED <<audio_path, files, created>>
              /\ log' = log \o <<Ev("AUDIO_ENHANCEMENT", "INFO"), Ev("AUDIO_ENHANCEMENT", "ERROR")>>
    /\ pc' = "model_init"
    /\ UNCHANGED <<Interleaved, model_call, Options, persisted, transcribed, TextVars, folder_idx, result>>

\* lines 90-91
SkipEnhance ==
    /\ pc = "enhance"
    /\ ~EnhancementRequested
    /\ log' = Append(log, Ev("AUDIO_ENHANCEMENT", "INFO"))
    /\ pc' = "model_init"
    /\ UNCHANGED <<Interleaved, model_call, Options, persisted, calls, FileVars, transcribed, TextVars,
                   folder_idx, result>>

\* lines 93-100: Transcriber(...) then Summarizer(...); either constructor may raise
ModelInit ==
    /\ pc = "model_init"
    /\ \E outcome \in {"ok", "Transcriber raises", "Summarizer raises"} :
         CASE outcome = "ok" ->
                /\ calls' = calls \o <<"Transcriber", "Summarizer">>
                /\ log' = log \o <<Ev("MODEL_INIT", "INFO"), Ev("MODEL_INIT", "SUCCESS")>>
                /\ pc' = "transcribe"
                /\ UNCHANGED result
           [] outcome = "Transcriber raises" ->
                /\ calls' = calls \o <<"Transcriber">>
                /\ log' = log \o <<Ev("MODEL_INIT", "INFO"), Ev("MODEL_INIT", "ERROR")>>
                /\ result' = ErrorResult(<<"Model initialization failed: ", "e">>)
                /\ pc' = "done"
           [] outcome = "Summarizer raises" ->
                /\ calls' = calls \o <<"Transcriber", "Summarizer">>
                /\ log' = log \o <<Ev("MODEL_INIT", "INFO"), Ev("MODEL_INIT", "ERROR")>>
                /\ result' = ErrorResult(<<"Model initialization failed: ", "e">>)
                /\ pc' = "done"
    /\ UNCHANGED <<Interleaved, model_call, Options, persisted, FileVars, transcribed, TextVars, folder_idx>>

\* Transcriber.transcribe, line 24: the options handed to the model; an empty
\* or missing language is falsy and gives no option (auto-detection)
whisper_options(lang) ==
    IF lang \notin {"None", ""} THEN {<<"language", lang>>} ELSE {}

\* what self.model.transcribe does: it raises, or it yields a text (possibly
\* empty) in the forced language, or in the language it detects
WhisperOutcomes == {"text", "empty text", "FileNotFoundError", "Exception"}
WhisperDetects == {"en"}
whisper_language(options, detects) ==
    IF options = {} THEN detects ELSE (CHOOSE o \in options : TRUE)[2]

\* Transcriber.transcribe with the exceptions answered by an empty pair
transcribe_EmptyPair(outcome, lang, detects) ==
    CASE outcome = "text"       -> <<"raw transcript", whisper_language(whisper_options(lang), detects)>>
      [] outcome = "empty text" -> <<"", whisper_language(whisper_options(lang), detects)>>
      [] OTHER                  -> <<"", "None">>

\* Transcriber.transcribe: what the call returns for an outcome of
\* self.model.transcribe.  "None" is Python's None; a pair is <<text, language>>.
transcribe(outcome, lang, detects) ==
    CASE outcome = "text"       -> <<"raw transcript", whisper_language(whisper_options(lang), detects)>>
      [] outcome = "empty text" -> <<"", whisper_language(whisper_options(lang), detects)>>
      [] OTHER                  -> "None"

\* lines 103-104, 112-114 and the unpacking of line 104: a pair is unpacked into
\* result, detected_language; unpacking None raises TypeError, which nothing in
\* run_pipeline catches
Transcribe ==
    /\ pc = "transcribe"
    /\ calls' = Append(calls, "transcribe")
    /\ transcribed' = audio_path
    /\ \E outcome \in WhisperOutcomes, detects \in WhisperDetects :
         LET ret == transcribe(outcome, language, detects) IN
         /\ model_call' = [options |-> whisper_options(language),
                           outcome |-> outcome, returned |-> ret]
         /\ IF ret = "None"
            THEN /\ log' = Append(log, Ev("TRANSCRIPTION", "INFO"))
                 /\ result' = Raised("TypeError")
                 /\ pc' = "done"
                 /\ UNCHANGED <<result_text, detected_language>>
            ELSE /\ result_text' = ret[1]
                 /\ detected_language' = ret[2]
                 /\ IF ret[1] # ""
                    THEN /\ log' = log \o <<Ev("TRANSCRIPTION", "INFO"), Ev("TRANSCRIPTION", "SUCCESS")>>
                         /\ pc' = "correct"
                         /\ UNCHANGED result
                    ELSE /\ log' = log \o <<Ev("TRANSCRIPTION", "INFO"), Ev("TRANSCRIPTION", "ERROR")>>
                         /\ result' = ErrorResult(<<"Transcription failed">>)
                         /\ pc' = "done"
    /\ UNCHANGED <<Interleaved, Options, persisted, FileVars, transcript, chunks,
                   clusters, cluster_summaries, final_summary, folder_idx>>

\* the text the generation model answers for a prompt naming the language
Corrected(lang) ==
    CASE lang = "id" -> "transcript corrected by the id rules"
      [] lang = "en" -> "transcript corrected by the en rules"
      [] OTHER       -> "transcript corrected by no rules"

\* Transcriber.language_rules with an empty answer when the model raises
language_rules_EmptyOnError(text, lang, generation_ok) ==
    IF generation_ok THEN Corrected(lang) ELSE ""

\* Transcriber.language_rules: the stripped response, or the input when the
\* generation model raises
language_rules(text, lang, generation_ok) ==
    IF generation_ok THEN Corrected(lang) ELSE text

\* lines 109-111
Correct ==
    /\ pc = "correct"
    /\ calls' = Append(calls, "language_rules")
    /\ \E generation_ok \in BOOLEAN :
         transcript' = language_rules(result_text, detected_language, generation_ok)
    /\ log' = log \o <<Ev("CORRECTION", "INFO"), Ev("CORRECTION", "SUCCESS")>>
    /\ pc' = "chunk"
    /\ UNCHANGED <<Interleaved, model_call, Options, persisted, FileVars, transcribed, result_text,
                   detected_language, chunks, clusters, cluster_summaries,
                   final_summary, folder_idx, result>>

\* summarizer.chunk_text: an ordered sequence of chunks; a chunk is the piece
\* of the text at a position
chunk_text(text, n) == [i \in 1..n |-> [pos |-> i, of |-> text]]

\* lines 117-121
Chunk ==
    /\ pc = "chunk"
    /\ calls' = Append(calls, "chunk_text")
    /\ \E n \in 1..MaxChunks : chunks' = chunk_text(transcript, n)
    /\ log' = log \o <<Ev("TEXT_PROCESSING", "INFO"), Ev("TEXT_CHUNKING", "SUCCESS")>>
    /\ pc' = "cluster"
    /\ UNCHANGED <<Interleaved, model_call, Options, persisted, FileVars, transcribed, result_text,
                   detected_language, transcript, clusters, cluster_summaries,
                   final_summary, folder_idx, result>>

\* line 124
NeedsClustering_AtThreshold(cs) == Len(cs) >= ClusterThreshold

NeedsClustering(cs) == Len(cs) > ClusterThreshold

\* line 130
SyntheticClusters_DropsFirst(cs) == (0 :> Tail(cs))

SyntheticClusters(cs) == (0 :> cs)

\* summarizer.cluster_chunks: every chunk is put under one cluster id; the
\* result maps each id in use to its chunks, in order
cluster_chunks(cs, assign) ==
    [c \in {assign[i] : i \in 1..Len(cs)} |->
        SelectSeq(cs, LAMBDA x : assign[x.pos] = c)]

\* the chunk-to-cluster assignments the model tries for n chunks: any choice
\* of ids for the first AssignPeriod chunks, repeated over the rest
Assignments(n) ==
    {[i \in 1..n |-> base[((i - 1) % AssignPeriod) + 1]] :
        base \in [1..AssignPeriod -> 0..(NumClusterIds - 1)]}

\* lines 124-128
ClusterChunks ==
    /\ pc = "cluster"
    /\ NeedsClustering(chunks)
    /\ calls' = Append(calls, "cluster_chunks")
    /\ \E assign \in Assignments(Len(chunks)) :
         clusters' = cluster_chunks(chunks, assign)
    /\ log' = log \o <<Ev("CLUSTERING", "INFO"), Ev("CLUSTERING", "SUCCESS")>>
    /\ pc' = "summarize"
    /\ UNCHANGED <<Interleaved, model_call, Options, persisted, FileVars, transcribed, result_text,
                   detected_language, transcript, chunks, cluster_summaries,
                   final_summary, folder_idx, result>>

\* lines 129-131
SkipClustering ==
    /\ pc = "cluster"
    /\ ~NeedsClustering(chunks)
    /\ clusters' = SyntheticClusters(chunks)
    /\ log' = Append(log, Ev("CLUSTERING", "INFO"))
    /\ pc' = "summarize"
    /\ UNCHANGED <<Interleaved, model_call, Options, persisted, calls, FileVars, transcribed, result_text,
                   detected_language, transcript, chunks, cluster_summaries,
                   final_summary, folder_idx, result>>

\* summarizer.get_final_summary: one summary per cluster and a final summary
get_final_summary(cl) ==
    <<[c \in DOMAIN cl |-> "cluster summary"], "final summary">>

\* lines 134-137
Summarize ==
    /\ pc = "summarize"
    /\ calls' = Append(calls, "get_final_summary")
    /\ cluster_summaries' = get_final_summary(clusters)[1]
    /\ final_summary' = get_final_summary(clusters)[2]
    /\ log' = log \o <<Ev("SUMMARIZATION", "INFO"), Ev("SUMMARIZATION", "SUCCESS")>>
    /\ pc' = "save"
    /\ UNCHANGED <<Interleaved, model_call, Options, persisted, FileVars, transcribed, result_text,
                   detected_language, transcript, chunks, clusters, folder_idx, result>>

\* lines 139-140
Save ==
    /\ pc = "save"
    /\ calls' = Append(calls, "save")
    /\ log' = Append(log, Ev("PIPELINE_COMPLETE", "SUCCESS"))
    /\ persisted' = Append(persisted, log')
    /\ pc' = "cleanup"
    /\ UNCHANGED <<Interleaved, model_call, Options, FileVars, transcribed, TextVars, folder_idx, result>>

\* lines 144-151 without the try/except: the exception leaves run_pipeline
Cleanup_Propagates ==
    /\ pc = "cleanup"
    /\ folder_idx <= Len(temp_folders)
    /\ LET folder == temp_folders[folder_idx] IN
         \/ /\ files' = files \ FilesUnder(folder)
            /\ UNCHANGED <<pc, result>>
         \/ /\ FilesUnder(folder) # {}
            /\ \E deleted \in SUBSET FilesUnder(folder) :
                 /\ deleted # FilesUnder(folder)
                 /\ files' = files \ deleted
            /\ result' = Raised("OSError")
            /\ pc' = "done"
    /\ calls' = Append(calls, "cleanup")
    /\ folder_idx' = folder_idx + 1
    /\ UNCHANGED <<Interleaved, model_call, Options, log, persisted, audio_path,
                   created, transcribed, TextVars>>

\* lines 144-151: one iteration of the loop over temp_folders.  An exception
\* inside the try (from exists, rglob, is_file or unlink) ends the iteration
\* with the files unlinked so far gone and a CLEANUP WARNING
Cleanup ==
    /\ pc = "cleanup"
    /\ folder_idx <= Len(temp_folders)
    /\ LET folder == temp_folders[folder_idx] IN
         \/ /\ files' = files \ FilesUnder(folder)
            /\ UNCHANGED log
         \/ /\ FilesUnder(folder) # {}
            /\ \E deleted \in SUBSET FilesUnder(folder) :
                 /\ deleted # FilesUnder(folder)
                 /\ files' = files \ deleted
            /\ log' = Append(log, Ev("CLEANUP", "WARNING"))
    /\ calls' = Append(calls, "cleanup")
    /\ folder_idx' = folder_idx + 1
    /\ UNCHANGED <<Interleaved, model_call, Options, persisted, audio_path, created, transcribed, TextVars,
                   pc, result>>

\* lines 153-159
Return ==
    /\ pc = "cleanup"
    /\ folder_idx > Len(temp_folders)
    /\ result' = SuccessResult
    /\ pc' = "done"
    /\ UNCHANGED <<Interleaved, model_call, Options, log, persisted, calls, FileVars, transcribed, TextVars,
                   folder_idx>>

Next ==
    \/ Begin
    \/ FileNotFound
    \/ UnsupportedType
    \/ Validated
    \/ ConvertVideo
    \/ ConvertAudio
    \/ UseWavDirectly
    \/ Enhance
    \/ SkipEnhance
    \/ ModelInit
    \/ Transcribe
    \/ Correct
    \/ Chunk
    \/ ClusterChunks
    \/ SkipClustering
    \/ Summarize
    \/ Save
    \/ Cleanup
    \/ Return

Spec == Init /\ [][Next]_vars

\* ================================================================ claims

Returned == pc = "done"
IsError == DOMAIN result = {"error"}
IsSuccess == DOMAIN result = SuccessFields

LaterStages == {"AUDIO_ENHANCEMENT", "MODEL_INIT", "TRANSCRIPTION", "CORRECTION",
                "TEXT_PROCESSING", "TEXT_CHUNKING", "CLUSTERING", "SUMMARIZATION",
                "PIPELINE_COMPLETE", "CLEANUP"}
Downstream == {"language_rules", "chunk_text", "cluster_chunks", "get_final_summary"}

\* C1: every run ends by returning the five-field success mapping or the
\* one-field error mapping, whatever the collaborators do.
C1_TwoShapes == Returned => (IsSuccess \/ IsError)

\* the transcription collaborator yielded None or an empty text
TranscriptionEmpty == Invoked("transcribe") /\ result_text \in {"None", ""}

\* C2: a null or empty transcription ends the run with the error
\* "Transcription failed", a TRANSCRIPTION ERROR event is logged and no
\* downstream stage is invoked.
C2_TranscriptionFailed ==
    TranscriptionEmpty =>
        /\ Returned
        /\ IsError
        /\ result = ErrorResult(<<"Transcription failed">>)
        /\ Logged("TRANSCRIPTION", "ERROR")
        /\ \A op \in Downstream : ~Invoked(op)

\* C3: when the run has ended, however it ended, no file it created under the
\* transient directories is left.
C3_CleanAtEnd == Returned => created \cap files = {}

\* C4: when the run has ended, however it ended, save() has been called exactly
\* once and what it persisted is the full event sequence of the run.
C4_SavedOnce == Returned => (Count("save") = 1 /\ persisted = <<log>>)

\* convert_audio_format was invoked and returned None
AudioConversionFailed ==
    Invoked("convert_audio_format") /\ StandardizedPath \notin created

\* C5 as stated: after a failed audio standardization a warning is logged, the
\* run always reaches transcription, and the file transcribed is the input file.
C5_Original ==
    AudioConversionFailed =>
        /\ Logged("AUDIO_PROCESSING", "WARNING")
        /\ Returned => Invoked("transcribe")
        /\ Invoked("transcribe") => transcribed = InputPath

\* C5 (amended): after a failed audio standardization a warning is logged, the
\* run goes on to the enhancement gate with the input file as the current
\* artifact, it ends before transcription only by a model initialization
\* error, and the file transcribed is the input file unless enhancement
\* succeeded, and then it is the enhanced file.
C5_AudioDegrades ==
    AudioConversionFailed =>
        /\ Logged("AUDIO_PROCESSING", "WARNING")
        /\ pc # "normalize"
        /\ pc = "enhance" => audio_path = InputPath
        /\ (Returned /\ ~Invoked("transcribe")) =>
              (IsError /\ result.error[1] = "Model initialization failed: ")
        /\ Invoked("transcribe") =>
              transcribed = IF EnhancedPath \in created THEN EnhancedPath ELSE InputPath

C5_Witness ==
    /\ AudioConversionFailed
    /\ Invoked("transcribe")
    /\ transcribed = InputPath

\* convert_video_to_audio was invoked and returned None
VideoConversionFailed ==
    Invoked("convert_video_to_audio") /\ VideoAudioPath \notin created

\* C6: after a failed video conversion the run has ended with the error
\* "Video conversion failed" and the log holds no event of the enhancement,
\* model-init, transcription or any later stage.
C6_VideoFatal ==
    VideoConversionFailed =>
        /\ Returned
        /\ result = ErrorResult(<<"Video conversion failed">>)
        /\ \A st \in LaterStages : ~StageLogged(st)
        /\ calls = <<"mkdir", "convert_video_to_audio">>

C6_Witness == VideoConversionFailed /\ Returned /\ Logged("VIDEO_PROCESSING", "ERROR")

\* C7: for a missing input the run never leaves validation: it ends with
\* "File not found: <input path>", the log is the INITIALIZATION event followed
\* by one FILE_VALIDATION ERROR event, and no external operation (converter,
\* enhancer, model, save, cleanup) is performed.
C7_MissingInput ==
    ~input_file.exists =>
        /\ pc \in {"start", "validate", "done"}
        /\ calls = <<>>
        /\ files = {}
        /\ persisted = <<>>
        /\ Returned =>
              /\ result = ErrorResult(<<"File not found: ", InputPath>>)
              /\ log = <<Ev("INITIALIZATION", "INFO"), Ev("FILE_VALIDATION", "ERROR")>>

C7_Witness == ~input_file.exists /\ Returned /\ IsError

\* the suffixes of Suffixes whose lower-cased form is outside the supported set
RejectedSuffixes == {".txt", ".MP3x"}
IsUnsupportedError == IsError /\ result.error[1] = "Unsupported file type: "

\* C8: for an existing input the run ends with "Unsupported file type" exactly
\* when the lower-cased extension is outside the supported set; a rejected
\* input has touched no resource, and a supported one goes past validation.
C8_UnsupportedIff ==
    input_file.exists =>
        /\ Returned => (IsUnsupportedError <=> input_file.suffix \in RejectedSuffixes)
        /\ input_file.suffix \in RejectedSuffixes =>
              /\ calls = <<>>
              /\ files = {}
              /\ pc \in {"start", "validate", "done"}
        /\ (Returned /\ IsUnsupportedError) =>
              log = <<Ev("INITIALIZATION", "INFO"), Ev("FILE_VALIDATION", "ERROR")>>

C8_Witness ==
    /\ input_file.exists
    /\ input_file.suffix = ".MP3x"
    /\ Returned
    /\ IsUnsupportedError

C8_WitnessAccepted ==
    /\ input_file.exists
    /\ input_file.suffix = ".MKV"
    /\ Returned
    /\ IsSuccess

\* the clustering decision of line 124 has been taken
ClusteringDecided ==
    Invoked("chunk_text") /\ pc \in {"summarize", "save", "cleanup", "done"}

\* C9: cluster_chunks is invoked exactly when there are more than 7 chunks;
\* when it is not, the cluster map is {0: all chunks in order} and the result
\* holds one cluster summary.
C9_ClusterThreshold ==
    ClusteringDecided =>
        /\ Invoked("cluster_chunks") <=> Len(chunks) > 7
        /\ Count("cluster_chunks") <= 1
        /\ ~Invoked("cluster_chunks") =>
              /\ DOMAIN clusters = {0}
              /\ clusters[0] = chunks
              /\ (Returned /\ IsSuccess) =>
                    Cardinality(DOMAIN result.cluster_summaries) = 1

C9_Witness ==
    /\ Returned /\ IsSuccess
    /\ Len(chunks) = 7
    /\ ~Invoked("cluster_chunks")

C9_WitnessClustered ==
    /\ Returned /\ IsSuccess
    /\ Len(chunks) = 8
    /\ Invoked("cluster_chunks")

\* the places <<cluster id, position>> of the cluster map that hold chunk ch
PlacesOf(ch) ==
    {pl \in UNION {{<<c, j>> : j \in 1..Len(clusters[c])} : c \in DOMAIN clusters} :
        clusters[pl[1]][pl[2]] = ch}

C10_WitnessClustered ==
    /\ ClusteringDecided
    /\ Len(chunks) = 8
    /\ Cardinality(DOMAIN clusters) = 2

\* convert_audio_format / enhance_audio / the constructors failed
EnhancementFailed == Invoked("enhance_audio") /\ EnhancedPath \notin created
ModelInitFailed == Logged("MODEL_INIT", "ERROR")
LastEvent == log[Len(log)]
FatalStages == {"FILE_VALIDATION", "VIDEO_PROCESSING", "MODEL_INIT", "TRANSCRIPTION"}

\* C11: every failure is in the log before it propagates: a run that ends
\* without the success result ends right after an ERROR event of the failing
\* stage, and every degradation (audio conversion, enhancement, cleanup of a
\* directory) has its WARNING or ERROR event.
C11_FailuresLogged ==
    /\ (Returned /\ ~IsSuccess) =>
          (LastEvent.severity = "ERROR" /\ LastEvent.stage \in FatalStages)
    /\ AudioConversionFailed => Logged("AUDIO_PROCESSING", "WARNING")
    /\ EnhancementFailed => Logged("AUDIO_ENHANCEMENT", "ERROR")
    /\ (Returned /\ IsSuccess /\ files # {}) => Logged("CLEANUP", "WARNING")

\* the place of a log stage and of an external operation in the fixed order
StageRank(stage) ==
    CASE stage = "INITIALIZATION"    -> 0
      [] stage = "FILE_VALIDATION"   -> 1
      [] stage = "AUDIO_CONVERSION"  -> 2
      [] stage = "VIDEO_PROCESSING"  -> 2
      [] stage = "AUDIO_PROCESSING"  -> 2
      [] stage = "AUDIO_ENHANCEMENT" -> 3
      [] stage = "MODEL_INIT"        -> 4
      [] stage = "TRANSCRIPTION"     -> 5
      [] stage = "CORRECTION"        -> 6
      [] stage = "TEXT_PROCESSING"   -> 7
      [] stage = "TEXT_CHUNKING"     -> 7
      [] stage = "CLUSTERING"        -> 8
      [] stage = "SUMMARIZATION"     -> 9
      [] stage = "PIPELINE_COMPLETE" -> 10
      [] stage = "CLEANUP"           -> 11

OpRank(op) ==
    CASE op \in {"mkdir", "convert_video_to_audio", "convert_audio_format"} -> 2
      [] op = "enhance_audio"            -> 3
      [] op \in {"Transcriber", "Summarizer"} -> 4
      [] op = "transcribe"               -> 5
      [] op = "language_rules"           -> 6
      [] op = "chunk_text"               -> 7
      [] op = "cluster_chunks"           -> 8
      [] op = "get_final_summary"        -> 9
      [] op = "save"                     -> 10
      [] op = "cleanup"                  -> 11

\* the outcome event of the stage of rank r is in the log: SUCCESS, WARNING or
\* ERROR, or the INFO event of a stage that was skipped
OutcomeLogged(r) ==
    \E i \in 1..Len(log) :
        /\ StageRank(log[i].stage) = r
        /\ log[i].stage \notin {"AUDIO_CONVERSION", "TEXT_PROCESSING"}
        /\ \/ log[i].severity \in {"SUCCESS", "WARNING", "ERROR"}
           \/ /\ log[i].severity = "INFO"
              /\ \A j \in 1..Len(calls) : OpRank(calls[j]) # r

LogForward ==
    \A i \in 1..(Len(log) - 1) : StageRank(log[i].stage) <= StageRank(log[i + 1].stage)
CallsForward ==
    \A i \in 1..(Len(calls) - 1) : OpRank(calls[i]) <= OpRank(calls[i + 1])
OpsAfterOutcome ==
    \A k \in (Len(calls) + 1)..Len(calls') : OutcomeLogged(OpRank(calls'[k]) - 1)

\* C12: the stage names of the log and the external operations never go back
\* to an earlier stage, and an external operation is invoked only when the
\* outcome event of the stage before it is in the log.
C12_StagesForward == [](LogForward /\ CallsForward) /\ [][OpsAfterOutcome]_vars

C12_Witness ==
    /\ Returned /\ IsSuccess
    /\ Invoked("convert_audio_format")
    /\ Invoked("enhance_audio")
    /\ Invoked("cluster_chunks")

VideoSuffixes == {".mp4", ".MKV", ".mov"}
WavSuffixes == {".wav", ".WAV"}
Normalized ==
    /\ input_file.exists
    /\ input_file.suffix \notin RejectedSuffixes
    /\ pc \notin {"start", "validate", "normalize"}

\* C13: a video input invokes convert_video_to_audio; an audio input invokes
\* convert_audio_format exactly when it is not a .wav or force_wav is set; a
\* .wav input without force_wav invokes no converter and its artifact is the
\* input path.
C13_NormalizationBranching ==
    Normalized =>
        /\ input_file.suffix \in VideoSuffixes =>
              /\ Count("convert_video_to_audio") = 1
              /\ ~Invoked("convert_audio_format")
        /\ input_file.suffix \notin VideoSuffixes =>
              /\ ~Invoked("convert_video_to_audio")
              /\ Count("convert_audio_format") <= 1
              /\ Invoked("convert_audio_format") <=>
                    (input_file.suffix \notin WavSuffixes \/ force_wav)
        /\ (input_file.suffix \in WavSuffixes /\ ~force_wav) =>
              /\ ~Invoked("mkdir")
              /\ created \subseteq {EnhancedPath}
              /\ pc = "enhance" => audio_path = InputPath

C13_Witness ==
    /\ pc = "enhance"
    /\ input_file.suffix = ".WAV"
    /\ ~force_wav
    /\ audio_path = InputPath

PastEnhance ==
    \/ pc \in {"model_init", "transcribe", "correct", "chunk", "cluster",
               "summarize", "save", "cleanup"}
    \/ Returned /\ StageLogged("AUDIO_ENHANCEMENT")

\* the artifact normalization left
NormalizedArtifact ==
    IF VideoAudioPath \in created THEN VideoAudioPath
    ELSE IF StandardizedPath \in created THEN StandardizedPath
    ELSE InputPath

\* C14: enhance_audio is invoked exactly when denoise or aggressive_denoise is
\* set; when it fails an AUDIO_ENHANCEMENT ERROR event is logged, the artifact
\* stays the one normalization left and the run goes on to model
\* initialization; when it succeeds the artifact is the enhanced path.
C14_EnhancementBestEffort ==
    PastEnhance =>
        /\ Invoked("enhance_audio") <=> (denoise \/ aggressive_denoise)
        /\ Count("enhance_audio") <= 1
        /\ pc = "model_init" \/ StageLogged("MODEL_INIT")
        /\ EnhancementFailed =>
              /\ Logged("AUDIO_ENHANCEMENT", "ERROR")
              /\ audio_path = NormalizedArtifact
        /\ EnhancedPath \in created =>
              /\ Logged("AUDIO_ENHANCEMENT", "SUCCESS")
              /\ audio_path = EnhancedPath

C14_Witness == EnhancementFailed /\ pc = "model_init" /\ ~denoise

\* C15: after a fatal failure (video conversion, model initialization,
\* transcription) the run has returned an error result and no operation or
\* event of a later stage exists; a run that had only non-fatal failures does
\* not end with an error.
C15_FatalShortCircuit ==
    /\ (VideoConversionFailed \/ ModelInitFailed \/ TranscriptionEmpty) =>
          (Returned /\ IsError)
    /\ VideoConversionFailed =>
          (~Invoked("enhance_audio") /\ ~Invoked("Transcriber") /\ ~StageLogged("AUDIO_ENHANCEMENT"))
    /\ ModelInitFailed =>
          (~Invoked("transcribe") /\ ~StageLogged("TRANSCRIPTION"))
    /\ TranscriptionEmpty =>
          /\ \A op \in Downstream : ~Invoked(op)
          /\ \A st \in {"CORRECTION", "TEXT_PROCESSING", "TEXT_CHUNKING", "CLUSTERING",
                        "SUMMARIZATION", "PIPELINE_COMPLETE", "CLEANUP"} : ~StageLogged(st)
    /\ (Returned /\ ~IsSuccess /\ input_file.exists /\ input_file.suffix \notin RejectedSuffixes) =>
          (VideoConversionFailed \/ ModelInitFailed \/ TranscriptionEmpty)

CleanupWarnings == Cardinality({i \in 1..Len(log) : log[i] = Ev("CLEANUP", "WARNING")})

\* C16: on the success path a deletion failure under a directory is logged as
\* a CLEANUP WARNING, the loop goes on over the remaining directories, nothing
\* is propagated and the run returns the full success result.
C16_CleanupContained ==
    (pc = "cleanup" \/ (Returned /\ Invoked("save"))) =>
        /\ Count("cleanup") = folder_idx - 1
        /\ CleanupWarnings <= Count("cleanup")
        /\ \A k \in 1..(folder_idx - 1) :
              FilesUnder(temp_folders[k]) # {} => CleanupWarnings >= 1
        /\ Returned => (IsSuccess /\ Count("cleanup") = Len(temp_folders))

C16_Witness ==
    /\ Returned /\ IsSuccess
    /\ CleanupWarnings >= 1
    /\ Count("cleanup") = 3

\* transcribe returned a non-empty text
TranscriptionSucceeded == Invoked("transcribe") /\ result_text \notin {"None", ""}

\* C18: after a successful transcription language_rules is invoked exactly
\* once, with the detected language, before chunking; its output (the
\* corrected text, or the input text when the generation model raised) is the
\* text that is chunked and returned as transcript, and the run goes on to
\* chunking either way.
C18_CorrectionUnconditional ==
    /\ Invoked("language_rules") =>
          (TranscriptionSucceeded /\ Logged("TRANSCRIPTION", "SUCCESS"))
    /\ (TranscriptionSucceeded /\ pc = "correct") =>
          (~Invoked("language_rules") /\ ~Invoked("chunk_text"))
    /\ (TranscriptionSucceeded /\ pc # "correct") =>
          /\ Count("language_rules") = 1
          /\ transcript \in {Corrected(detected_language), result_text}
          /\ transcript \notin {"", "None"}
          /\ detected_language \in {"id", "en"}
          /\ pc = "chunk" \/ Invoked("chunk_text")
          /\ \A i \in 1..Len(chunks) : chunks[i].of = transcript
          /\ (Returned /\ IsSuccess) => result.transcript = transcript

C18_Witness ==
    /\ Returned /\ IsSuccess
    /\ transcript = result_text
    /\ Len(chunks) >= 1

\* the language the model answers with for the language option of the run
AnsweredLanguage == IF language \in {"None", ""} THEN "en" ELSE language

\* C19: transcribe returns None when the model raises, whatever the exception,
\* and the pair (text, language) when the model succeeds; the language option
\* is given to the model only for a non-empty language.
C19_TranscribeNeverRaises ==
    Invoked("transcribe") =>
        /\ model_call.outcome \in WhisperOutcomes
        /\ model_call.outcome \in {"FileNotFoundError", "Exception"} =>
              model_call.returned = "None"
        /\ model_call.outcome = "text" =>
              model_call.returned = <<"raw transcript", AnsweredLanguage>>
        /\ model_call.outcome = "empty text" =>
              model_call.returned = <<"", AnsweredLanguage>>
        /\ model_call.options =
              IF language \in {"None", ""} THEN {} ELSE {<<"language", language>>}

C19_Witness ==
    /\ Invoked("transcribe")
    /\ model_call.outcome = "FileNotFoundError"
    /\ model_call.returned = "None"

\* C20: when the enhancement stage is reached the artifact is the converted
\* path if conversion succeeded, else the input path; when the transcription
\* stage is reached it is the enhanced path if enhancement succeeded, else that
\* same artifact; it is never None there, and it is the path transcribed.
C20_CurrentArtifact ==
    /\ pc = "enhance" =>
          (audio_path # NoPath /\ audio_path = NormalizedArtifact)
    /\ (pc = "transcribe" \/ Invoked("transcribe")) =>
          /\ audio_path # NoPath
          /\ audio_path = IF EnhancedPath \in created THEN EnhancedPath
                          ELSE NormalizedArtifact
    /\ Invoked("transcribe") => transcribed = audio_path

C20_Witness ==
    /\ pc = "transcribe"
    /\ EnhancementFailed
    /\ audio_path = StandardizedPath

\* ============================================== two interleaved runs
\* Two runs of run_pipeline in one process (one working directory), each with
\* its own locals; the steps are those of the single run, reduced to what they
\* do to the files under the transient directories.

RunIds == {1, 2}
Stems == {"talk", "memo"}
Kinds == {"video", "audio", "wav"}

vars1 == <<pc, input_file, denoise, aggressive_denoise, force_wav, language,
           log, persisted, calls, audio_path, files, created, transcribed,
           result_text, detected_language, transcript, chunks, clusters,
           cluster_summaries, final_summary, folder_idx, result, model_call>>

\* the paths of a run: lines 24, 58, 71 and the path enhance_audio returns
InputOf(stem) == [dir |-> "uploads", name |-> stem, ext |-> ".in"]
VideoAudioOf(stem) == [dir |-> "data/audio", name |-> stem, ext |-> ".wav"]
StandardizedName(stem) ==
    IF stem = "talk" THEN "talk_standardized" ELSE "memo_standardized"
EnhancedName(stem) ==
    IF stem = "talk" THEN "talk_enhanced" ELSE "memo_enhanced"
StandardizedOf(stem) ==
    [dir |-> "data/audio", name |-> StandardizedName(stem), ext |-> ".wav"]
EnhancedOf(stem) ==
    [dir |-> "data/audio/enhanced", name |-> EnhancedName(stem), ext |-> ".wav"]

\* writing a file (creating or overwriting it) and unlinking files
Write(d, path, r) == [q \in DOMAIN d \cup {path} |-> IF q = path THEN r ELSE d[q]]
Unlink(d, gone) == [q \in DOMAIN d \ gone |-> d[q]]
OnDiskUnder(folder) == {q \in DOMAIN disk : Under(folder, q)}

InitTwo ==
    /\ pc = "start"
    /\ input_file = [exists |-> TRUE, suffix |-> ".wav"]
    /\ denoise = FALSE
    /\ aggressive_denoise = FALSE
    /\ force_wav = FALSE
    /\ language = "None"
    /\ log = <<>>
    /\ persisted = <<>>
    /\ calls = <<>>
    /\ audio_path = NoPath
    /\ files = {}
    /\ created = {}
    /\ transcribed = NoPath
    /\ result_text = "None"
    /\ detected_language = "None"
    /\ transcript = "None"
    /\ chunks = <<>>
    /\ clusters = <<>>
    /\ cluster_summaries = <<>>
    /\ final_summary = "None"
    /\ folder_idx = 1
    /\ result = NoResult
    /\ model_call = NoCall
    /\ runs \in [RunIds -> [pc : {"normalize"}, stem : Stems, kind : Kinds,
                            denoise : BOOLEAN, audio_path : {NoPath},
                            transcribed : {NoPath}, folder_idx : {1}]]
    /\ disk = <<>>

\* lines 54-64 for run r
RunConvertVideo(r) ==
    /\ runs[r].pc = "normalize"
    /\ runs[r].kind = "video"
    /\ \E ok \in BOOLEAN :
         IF ok
         THEN /\ disk' = Write(disk, VideoAudioOf(runs[r].stem), r)
              /\ runs' = [runs EXCEPT ![r].audio_path = VideoAudioOf(runs[r].stem),
                                      ![r].pc = "enhance"]
         ELSE /\ UNCHANGED disk
              /\ runs' = [runs EXCEPT ![r].audio_path = VideoAudioOf(runs[r].stem),
                                      ![r].pc = "done"]
    /\ UNCHANGED vars1

\* lines 66-77 for run r
RunConvertAudio(r) ==
    /\ runs[r].pc = "normalize"
    /\ runs[r].kind = "audio"
    /\ \E ok \in BOOLEAN :
         IF ok
         THEN /\ disk' = Write(disk, StandardizedOf(runs[r].stem), r)
              /\ runs' = [runs EXCEPT ![r].audio_path = StandardizedOf(runs[r].stem),
                                      ![r].pc = "enhance"]
         ELSE /\ UNCHANGED disk
              /\ runs' = [runs EXCEPT ![r].audio_path = InputOf(runs[r].stem),
                                      ![r].pc = "enhance"]
    /\ UNCHANGED vars1

\* lines 78-80 for run r
RunUseWavDirectly(r) ==
    /\ runs[r].pc = "normalize"
    /\ runs[r].kind = "wav"
    /\ runs' = [runs EXCEPT ![r].audio_path = InputOf(runs[r].stem),
                            ![r].pc = "enhance"]
    /\ UNCHANGED <<disk, vars1>>

\* lines 82-91 for run r
RunEnhance(r) ==
    /\ runs[r].pc = "enhance"
    /\ \/ /\ runs[r].denoise
          /\ disk' = Write(disk, EnhancedOf(runs[r].stem), r)
          /\ runs' = [runs EXCEPT ![r].audio_path = EnhancedOf(runs[r].stem),
                                  ![r].pc = "model_init"]
       \/ /\ UNCHANGED disk
          /\ runs' = [runs EXCEPT ![r].pc = "model_init"]
    /\ UNCHANGED vars1

\* lines 93-100 for run r
RunModelInit(r) ==
    /\ runs[r].pc = "model_init"
    /\ \E ok \in BOOLEAN :
         runs' = [runs EXCEPT ![r].pc = IF ok THEN "transcribe" ELSE "done"]
    /\ UNCHANGED <<disk, vars1>>

\* lines 103-114 for run r: the artifact is read here
RunTranscribe(r) ==
    /\ runs[r].pc = "transcribe"
    /\ \E ok \in BOOLEAN :
         runs' = [runs EXCEPT ![r].transcribed = runs[r].audio_path,
                              ![r].pc = IF ok THEN "summarize" ELSE "done"]
    /\ UNCHANGED <<disk, vars1>>

\* lines 109-140 for run r: correction to save, no file is touched
RunSummarize(r) ==
    /\ runs[r].pc = "summarize"
    /\ runs' = [runs EXCEPT ![r].pc = "cleanup"]
    /\ UNCHANGED <<disk, vars1>>

\* lines 144-151 for run r: one iteration of the loop
RunCleanup(r) ==
    /\ runs[r].pc = "cleanup"
    /\ runs[r].folder_idx <= Len(temp_folders)
    /\ LET folder == temp_folders[runs[r].folder_idx] IN
         \/ disk' = Unlink(disk, OnDiskUnder(folder))
         \/ /\ OnDiskUnder(folder) # {}
            /\ \E deleted \in SUBSET OnDiskUnder(folder) :
                 /\ deleted # OnDiskUnder(folder)
                 /\ disk' = Unlink(disk, deleted)
    /\ runs' = [runs EXCEPT ![r].folder_idx = @ + 1]
    /\ UNCHANGED vars1

\* lines 153-159 for run r
RunReturn(r) ==
    /\ runs[r].pc = "cleanup"
    /\ runs[r].folder_idx > Len(temp_folders)
    /\ runs' = [runs EXCEPT ![r].pc = "done"]
    /\ UNCHANGED <<disk, vars1>>

NextTwo ==
    \E r \in RunIds :
        \/ RunConvertVideo(r)
        \/ RunConvertAudio(r)
        \/ RunUseWavDirectly(r)
        \/ RunEnhance(r)
        \/ RunModelInit(r)
        \/ RunTranscribe(r)
        \/ RunSummarize(r)
        \/ RunCleanup(r)
        \/ RunReturn(r)

SpecTwoRuns == InitTwo /\ [][NextTwo]_vars

\* run r holds an artifact under the transient directories, written by it and
\* not yet transcribed
HoldsArtifact(r) ==
    /\ runs[r].pc \in {"enhance", "model_init", "transcribe"}
    /\ runs[r].audio_path \in DOMAIN disk
    /\ disk[runs[r].audio_path] = r

\* C17: with two runs interleaved, no step of one run overwrites or deletes
\* the current audio artifact of the other run before the other run has
\* transcribed it.
C17_ExclusiveArtifacts ==
    [][\A r \in RunIds :
          (HoldsArtifact(r) /\ runs'[r] = runs[r]) =>
              /\ runs[r].audio_path \in DOMAIN disk'
              /\ disk'[runs[r].audio_path] = r]_vars

====
